---- MODULE Spec2Model ----
(***************************************************************************)
(* A model of agentils: the serialization helpers of utils.py (Utils) and  *)
(* the request adapter of main.py (AgentsUtils).                           *)
(*                                                                         *)
(* Text is a sequence of one-character strings, so that fence stripping,   *)
(* JSON encoding and JSON decoding are computed character by character.    *)
(* Exception messages are sequences of message fragments.                  *)
(***************************************************************************)
EXTENDS Integers, Sequences, FiniteSets, TLC

(***************************************************************************)
(* Python values.  Every value carries the same five fields:               *)
(*   t  the type tag            i  the integer payload (int, bool, ref)    *)
(*   s  the text of a str       k  the keys of a dict (texts)              *)
(*   e  the items of a list, or the values of a dict (aligned with k)      *)
(* "ref" is a reference to a container object of the heap, which is how a  *)
(* structure can contain itself; "set" is a Python set object, a type the  *)
(* JSON encoder does not support.                                          *)
(***************************************************************************)
Val(t, i, s, k, e) == [t |-> t, i |-> i, s |-> s, k |-> k, e |-> e]

VNone == Val("none", 0, <<>>, <<>>, <<>>)

VBool(b) == Val("bool", IF b THEN 1 ELSE 0, <<>>, <<>>, <<>>)

VInt(n) == Val("int", n, <<>>, <<>>, <<>>)

VStr(cs) == Val("str", 0, cs, <<>>, <<>>)

VList(items) == Val("list", 0, <<>>, <<>>, items)

VDict(keys, vals) == Val("dict", 0, <<>>, keys, vals)

VSet == Val("set", 0, <<>>, <<>>, <<>>)

VRef(a) == Val("ref", a, <<>>, <<>>, <<>>)

(* The outcome of a call: a returned value, or a raised exception with its *)
(* type and its message str(e).                                            *)
Ret(v) == [st |-> "return", exc |-> "", v |-> v]

Raise(exc, msg) == [st |-> "raise", exc |-> exc, v |-> VStr(msg)]

NoOutcome == [st |-> "none", exc |-> "", v |-> VNone]

(***************************************************************************)
(* Text helpers: str.replace(pat, ''), str.strip().                        *)
(***************************************************************************)
IsAt(s, i, pat) ==
    /\ i + Len(pat) - 1 <= Len(s)
    /\ SubSeq(s, i, i + Len(pat) - 1) = pat

Least(S) == CHOOSE x \in S : \A y \in S : x <= y

(* the occurrences of pat are removed from left to right, without overlap *)
RECURSIVE RemoveFrom(_, _, _)
RemoveFrom(s, i, pat) ==
    LET found == {j \in i..Len(s) : IsAt(s, j, pat)}
    IN  IF found = {} THEN SubSeq(s, i, Len(s))
        ELSE SubSeq(s, i, Least(found) - 1)
             \o RemoveFrom(s, Least(found) + Len(pat), pat)

Remove(s, pat) == RemoveFrom(s, 1, pat)

Whitespace == {" ", "\n", "\t", "\r"}

RECURSIVE LStrip(_)
LStrip(s) ==
    IF Len(s) > 0 /\ s[1] \in Whitespace THEN LStrip(Tail(s)) ELSE s

RECURSIVE RStrip(_)
RStrip(s) ==
    IF Len(s) > 0 /\ s[Len(s)] \in Whitespace
    THEN RStrip(SubSeq(s, 1, Len(s) - 1))
    ELSE s

Strip(s) == RStrip(LStrip(s))

(* The backtick character, which a TLA+ string cannot hold, is written as   *)
(* the one-character token "BT".                                           *)
BT == "BT"

Fence == <<BT, BT, BT>>

FencePython == Fence \o <<"p", "y", "t", "h", "o", "n">>

(***************************************************************************)
(* json.dumps(d, indent=2)                                                 *)
(***************************************************************************)
DigitChars == <<"0", "1", "2", "3", "4", "5", "6", "7", "8", "9">>

RECURSIVE NatText(_)
NatText(n) ==
    IF n < 10 THEN <<DigitChars[n + 1]>>
    ELSE NatText(n \div 10) \o <<DigitChars[(n % 10) + 1]>>

IntText(n) == IF n < 0 THEN <<"-">> \o NatText(-n) ELSE NatText(n)

EscapeChar(c) ==
    CASE c = "\"" -> <<"\\", "\"">>
      [] c = "\\" -> <<"\\", "\\">>
      [] c = "\n" -> <<"\\", "n">>
      [] c = "\t" -> <<"\\", "t">>
      [] c = "\r" -> <<"\\", "r">>
      [] OTHER -> <<c>>

RECURSIVE EscapeText(_)
EscapeText(cs) ==
    IF cs = <<>> THEN <<>> ELSE EscapeChar(Head(cs)) \o EscapeText(Tail(cs))

QuotedText(cs) == <<"\"">> \o EscapeText(cs) \o <<"\"">>

RECURSIVE Spaces(_)
Spaces(n) == IF n <= 0 THEN <<>> ELSE <<" ">> \o Spaces(n - 1)

IndentWidth == 2

NewlineIndent(level) == <<"\n">> \o Spaces(IndentWidth * level)

RECURSIVE Encode(_, _, _, _)
RECURSIVE EncodeItems(_, _, _, _, _, _)

(* The items of a container from index n on, each preceded by its          *)
(* separator; acc is the text so far.                                      *)
EncodeItems(heap, c, n, markers, level, acc) ==
    IF n > Len(c.e) THEN Ret(VStr(acc))
    ELSE LET sep == IF n = 1 THEN NewlineIndent(level)
                    ELSE <<",">> \o NewlineIndent(level)
             key == IF c.t = "dict"
                    THEN QuotedText(c.k[n]) \o <<":", " ">>
                    ELSE <<>>
             item == Encode(heap, c.e[n], markers, level)
         IN  IF item.st = "raise" THEN item
             ELSE EncodeItems(heap, c, n + 1, markers, level,
                              acc \o sep \o key \o item.v.s)

EncodeContainer(heap, c, markers, level) ==
    LET open == IF c.t = "dict" THEN "{" ELSE "["
        close == IF c.t = "dict" THEN "}" ELSE "]"
    IN  IF c.e = <<>> THEN Ret(VStr(<<open, close>>))
        ELSE LET items == EncodeItems(heap, c, 1, markers, level + 1, <<open>>)
             IN  IF items.st = "raise" THEN items
                 ELSE Ret(VStr(items.v.s \o NewlineIndent(level) \o <<close>>))

Encode(heap, v, markers, level) ==
    CASE v.t = "none" -> Ret(VStr(<<"n", "u", "l", "l">>))
      [] v.t = "bool" ->
            Ret(VStr(IF v.i = 1 THEN <<"t", "r", "u", "e">>
                     ELSE <<"f", "a", "l", "s", "e">>))
      [] v.t = "int" -> Ret(VStr(IntText(v.i)))
      [] v.t = "str" -> Ret(VStr(QuotedText(v.s)))
      [] v.t \in {"dict", "list"} -> EncodeContainer(heap, v, markers, level)
      [] v.t = "ref" ->
            IF v.i \in markers
            THEN Raise("ValueError", <<"Circular reference detected">>)
            ELSE EncodeContainer(heap, heap[v.i], markers \cup {v.i}, level)
      [] OTHER ->
            Raise("TypeError",
                  <<"Object of type ", v.t, " is not JSON serializable">>)

JsonDumps(heap, d) == Encode(heap, d, {}, 0)

(***************************************************************************)
(* json.loads(s): the decoder's scanner.  A parse result is the value and  *)
(* the position after it, or the message of the JSONDecodeError.           *)
(***************************************************************************)
POk(v, p) == [ok |-> TRUE, v |-> v, p |-> p, exc |-> "", err |-> <<>>]

PErr(msg, p) ==
    [ok |-> FALSE, v |-> VNone, p |-> p, exc |-> "JSONDecodeError",
     err |-> <<msg>>]

RECURSIVE SkipWS(_, _)
SkipWS(s, i) ==
    IF i <= Len(s) /\ s[i] \in Whitespace THEN SkipWS(s, i + 1) ELSE i

CharAt(s, i) == IF i <= Len(s) THEN s[i] ELSE "EOF"

DigitSet == {DigitChars[n] : n \in 1..10}

DigitValue(c) == (CHOOSE n \in 1..10 : DigitChars[n] = c) - 1

(* the position after the digits that start at i *)
DigitsEnd(s, i) ==
    LET stops == {e \in i..Len(s) : s[e] \notin DigitSet}
    IN  IF stops = {} THEN Len(s) + 1 ELSE Least(stops)

(* the number written by the digits of s from i to e - 1 *)
RECURSIVE DigitsValue(_, _, _)
DigitsValue(s, i, e) ==
    IF e <= i THEN 0
    ELSE 10 * DigitsValue(s, i, e - 1) + DigitValue(s[e - 1])

(* sys.int_max_str_digits, the interpreter's default: int() refuses a      *)
(* longer digit string with a ValueError                                   *)
IntMaxStrDigits == 4300

(* NUMBER_RE, the integer form: an optional minus sign, then 0 or a digit  *)
(* other than 0 followed by digits; then int(integer)                      *)
ScanNumber(s, i) ==
    LET neg == CharAt(s, i) = "-"
        j == IF neg THEN i + 1 ELSE i
        e == IF CharAt(s, j) = "0" THEN j + 1 ELSE DigitsEnd(s, j)
    IN  IF CharAt(s, j) \notin DigitSet THEN PErr("Expecting value", i)
        ELSE IF e - j > IntMaxStrDigits
        THEN [ok |-> FALSE, v |-> VNone, p |-> i, exc |-> "ValueError",
              err |-> <<"Exceeds the limit (4300 digits) for integer string conversion">>]
        ELSE POk(VInt(IF neg THEN -DigitsValue(s, j, e)
                      ELSE DigitsValue(s, j, e)), e)

Unescape(c) ==
    CASE c = "n" -> "\n"
      [] c = "t" -> "\t"
      [] c = "r" -> "\r"
      [] OTHER -> c

(* scanstring, strict: i is the position after the opening quote *)
RECURSIVE ScanString(_, _, _)
ScanString(s, i, acc) ==
    IF i > Len(s) THEN PErr("Unterminated string starting at", i)
    ELSE IF s[i] = "\"" THEN POk(VStr(acc), i + 1)
    ELSE IF s[i] = "\\"
         THEN IF i + 1 > Len(s)
              THEN PErr("Unterminated string starting at", i)
              ELSE IF s[i + 1] \in {"\"", "\\", "/", "n", "t", "r"}
              THEN ScanString(s, i + 2, Append(acc, Unescape(s[i + 1])))
              ELSE PErr("Invalid \\escape", i)
    ELSE IF s[i] \in {"\n", "\t", "\r"}
         THEN PErr("Invalid control character at", i)
    ELSE ScanString(s, i + 1, Append(acc, s[i]))

(* d[key] = value on the pairs of a dict under construction *)
DictSet(d, key, value) ==
    IF \E n \in 1..Len(d.k) : d.k[n] = key
    THEN LET n == CHOOSE m \in 1..Len(d.k) : d.k[m] = key
         IN  VDict(d.k, [d.e EXCEPT ![n] = value])
    ELSE VDict(Append(d.k, key), Append(d.e, value))

RECURSIVE ScanOnce(_, _)
RECURSIVE ScanMembers(_, _, _)
RECURSIVE ScanElements(_, _, _)

(* JSONObject's loop: i is at the opening quote of a key *)
ScanMembers(s, i, d) ==
    LET key == ScanString(s, i + 1, <<>>)
        c == SkipWS(s, key.p)
        val == ScanOnce(s, SkipWS(s, c + 1))
        e == SkipWS(s, val.p)
        n == SkipWS(s, e + 1)
    IN  IF ~key.ok THEN key
        ELSE IF CharAt(s, c) # ":" THEN PErr("Expecting ':' delimiter", c)
        ELSE IF ~val.ok THEN val
        ELSE IF CharAt(s, e) = "}" THEN POk(DictSet(d, key.v.s, val.v), e + 1)
        ELSE IF CharAt(s, e) # "," THEN PErr("Expecting ',' delimiter", e)
        ELSE IF CharAt(s, n) # "\""
        THEN PErr("Expecting property name enclosed in double quotes", n)
        ELSE ScanMembers(s, n, DictSet(d, key.v.s, val.v))

(* JSONObject: i is the position after the opening brace *)
ScanObject(s, i) ==
    LET j == SkipWS(s, i)
    IN  IF CharAt(s, j) = "}" THEN POk(VDict(<<>>, <<>>), j + 1)
        ELSE IF CharAt(s, j) # "\""
        THEN PErr("Expecting property name enclosed in double quotes", j)
        ELSE ScanMembers(s, j, VDict(<<>>, <<>>))

(* JSONArray's loop: i is at the start of an element *)
ScanElements(s, i, items) ==
    LET val == ScanOnce(s, i)
        e == SkipWS(s, val.p)
    IN  IF ~val.ok THEN val
        ELSE IF CharAt(s, e) = "]" THEN POk(VList(Append(items, val.v)), e + 1)
        ELSE IF CharAt(s, e) # "," THEN PErr("Expecting ',' delimiter", e)
        ELSE ScanElements(s, SkipWS(s, e + 1), Append(items, val.v))

ScanArray(s, i) ==
    LET j == SkipWS(s, i)
    IN  IF CharAt(s, j) = "]" THEN POk(VList(<<>>), j + 1)
        ELSE ScanElements(s, j, <<>>)

ScanOnce(s, i) ==
    LET c == CharAt(s, i)
    IN  CASE c = "\"" -> ScanString(s, i + 1, <<>>)
          [] c = "{" -> ScanObject(s, i + 1)
          [] c = "[" -> ScanArray(s, i + 1)
          [] c = "n" /\ IsAt(s, i, <<"n", "u", "l", "l">>) -> POk(VNone, i + 4)
          [] c = "t" /\ IsAt(s, i, <<"t", "r", "u", "e">>) ->
                POk(VBool(TRUE), i + 4)
          [] c = "f" /\ IsAt(s, i, <<"f", "a", "l", "s", "e">>) ->
                POk(VBool(FALSE), i + 5)
          [] c = "-" \/ c \in DigitSet -> ScanNumber(s, i)
          [] OTHER -> PErr("Expecting value", i)

(* JSONDecoder.decode: one value between optional whitespace, then the     *)
(* end.  The scanner's failures are JSONDecodeErrors, except the one of    *)
(* int().                                                                  *)
JsonLoads(s) ==
    LET r == ScanOnce(s, SkipWS(s, 1))
        end == SkipWS(s, r.p)
    IN  IF ~r.ok THEN Raise(r.exc, r.err)
        ELSE IF end # Len(s) + 1 THEN Raise("JSONDecodeError", <<"Extra data">>)
        ELSE Ret(r.v)

(***************************************************************************)
(* utils.py: Utils                                                         *)
(***************************************************************************)
KeyError == <<"e", "r", "r", "o", "r">>

ErrorDict(msg) == VDict(<<KeyError>>, <<VStr(msg)>>)

(* s.replace(FencePython, '').replace(Fence, '').strip() *)
StripFences(s) == Strip(Remove(Remove(s, FencePython), Fence))

(* Utils.string_to_dict(s).  A value that is no str has no replace(): the  *)
(* AttributeError is not a JSONDecodeError and leaves the function.        *)
StringToDict(s) ==
    IF s.t # "str"
    THEN Raise("AttributeError",
               <<"'", s.t, "' object has no attribute 'replace'">>)
    ELSE LET r == JsonLoads(StripFences(s.s))
         IN  IF r.st = "raise" /\ r.exc = "JSONDecodeError"
             THEN Ret(ErrorDict(<<"Invalid string format", ": ">> \o r.v.s))
             ELSE r

(* Utils.dict_to_string(d): only TypeError is caught *)
DictToString(heap, d) ==
    LET r == JsonDumps(heap, d)
    IN  IF r.st = "raise" /\ r.exc = "TypeError"
        THEN Ret(VStr(<<"Error: Invalid dictionary format", ": ">> \o r.v.s))
        ELSE r

(***************************************************************************)
(* main.py: AgentsUtils.  Helpers of the wrapper.                          *)
(***************************************************************************)
(* Python truthiness: None, 0, '' and empty containers are false; objects  *)
(* of other types (functions, SDK objects) are true.                       *)
Truthy(v) ==
    CASE v.t = "none" -> FALSE
      [] v.t \in {"bool", "int"} -> v.i # 0
      [] v.t = "str" -> v.s # <<>>
      [] v.t \in {"list", "dict"} -> v.e # <<>>
      [] OTHER -> TRUE

(* a or b *)
PyOr(a, b) == IF Truthy(a) THEN a ELSE b


(* Mutation of ResolveKey: presence (is not None) in place of truthiness,  *)
(* so an empty string at an earlier position is chosen.                    *)
ResolveKeyFirstSet(api_key, environ) ==
    IF api_key # VNone THEN api_key
    ELSE IF environ.GOOGLE_API_KEY # VNone THEN environ.GOOGLE_API_KEY
    ELSE environ.GEMINI_API_KEY

(* api_key or os.getenv('GOOGLE_API_KEY') or os.getenv('GEMINI_API_KEY') *)
ResolveKey(api_key, environ) ==
    PyOr(PyOr(api_key, environ.GOOGLE_API_KEY), environ.GEMINI_API_KEY)

KeyRequired ==
    Raise("ValueError",
          <<"API key required. Set GOOGLE_API_KEY environment variable or pass api_key parameter.">>)

(* a Python function object, as a tool or as the wrapped function *)
VFunc(name) == Val("function", 0, <<name>>, <<>>, <<>>)

(* an object of the SDK built from keyword arguments *)
SdkObject(type, keys, vals) == Val(type, 0, <<>>, keys, vals)

HasKey(d, key) == \E n \in 1..Len(d.k) : d.k[n] = key

Get(d, key) == d.e[CHOOSE n \in 1..Len(d.k) : d.k[n] = key]

MaxFunctionCallsDefault == 10

ModelNameDefault == "gemini-2.0-flash-001"

(* Mutation of FunctionCallingMode: the flag ignored, the cap always sent. *)
FunctionCallingModeAlwaysCap(o) ==
    SdkObject("AutomaticFunctionCallingConfig",
              <<<<"maximum_remote_calls">>>>,
              <<VInt(o.max_function_calls)>>)

(* types.AutomaticFunctionCallingConfig(...) of the tools branch *)
FunctionCallingMode(o) ==
    IF o.automatic_function_calling
    THEN SdkObject("AutomaticFunctionCallingConfig",
                   <<<<"maximum_remote_calls">>>>,
                   <<VInt(o.max_function_calls)>>)
    ELSE SdkObject("AutomaticFunctionCallingConfig",
                   <<<<"disable">>>>, <<VBool(TRUE)>>)


(* Mutation of ConfigParams: the numeric options tested for truthiness, so *)
(* a zero is dropped like None.                                            *)
ConfigParamsTruthyNumbers(o) ==
    LET p0 == VDict(<<>>, <<>>)
        p1 == IF Truthy(o.tools)
              THEN DictSet(DictSet(p0, <<"tools">>, o.tools),
                           <<"automatic_function_calling">>,
                           FunctionCallingMode(o))
              ELSE p0
        p2 == IF Truthy(o.system_instruction)
              THEN DictSet(p1, <<"system_instruction">>, o.system_instruction)
              ELSE p1
        p3 == IF Truthy(o.temperature)
              THEN DictSet(p2, <<"temperature">>, o.temperature)
              ELSE p2
        p4 == IF Truthy(o.max_output_tokens)
              THEN DictSet(p3, <<"max_output_tokens">>, o.max_output_tokens)
              ELSE p3
    IN  IF o.output = "json"
        THEN DictSet(p4, <<"response_mime_type">>,
                     VStr(<<"application/json">>))
        ELSE p4

(* config_params of the wrapper, built in the order of the code *)
ConfigParams(o) ==
    LET p0 == VDict(<<>>, <<>>)
        p1 == IF Truthy(o.tools)
              THEN DictSet(DictSet(p0, <<"tools">>, o.tools),
                           <<"automatic_function_calling">>,
                           FunctionCallingMode(o))
              ELSE p0
        p2 == IF Truthy(o.system_instruction)
              THEN DictSet(p1, <<"system_instruction">>, o.system_instruction)
              ELSE p1
        p3 == IF o.temperature # VNone
              THEN DictSet(p2, <<"temperature">>, o.temperature)
              ELSE p2
        p4 == IF o.max_output_tokens # VNone
              THEN DictSet(p3, <<"max_output_tokens">>, o.max_output_tokens)
              ELSE p3
    IN  IF o.output = "json"
        THEN DictSet(p4, <<"response_mime_type">>,
                     VStr(<<"application/json">>))
        ELSE p4

(* Mutation of ChatConfigParams: the tools branch of the single-shot path, *)
(* which adds the function-calling mode.                                   *)
ChatConfigParamsWithMode(o) ==
    LET p0 == VDict(<<>>, <<>>)
        p1 == IF Truthy(o.system_instruction)
              THEN DictSet(p0, <<"system_instruction">>, o.system_instruction)
              ELSE p0
    IN  IF Truthy(o.tools)
        THEN DictSet(DictSet(p1, <<"tools">>, o.tools),
                     <<"automatic_function_calling">>,
                     FunctionCallingMode(o))
        ELSE p1

(* config_params of create_chat_session *)
ChatConfigParams(o) ==
    LET p0 == VDict(<<>>, <<>>)
        p1 == IF Truthy(o.system_instruction)
              THEN DictSet(p0, <<"system_instruction">>, o.system_instruction)
              ELSE p0
    IN  IF Truthy(o.tools) THEN DictSet(p1, <<"tools">>, o.tools) ELSE p1

(* the GenerateContentConfig built from config_params, or None when        *)
(* config_params is empty                                                  *)
MakeConfig(params) ==
    IF Truthy(params)
    THEN SdkObject("GenerateContentConfig", params.k, params.e)
    ELSE VNone


(* Mutation of ErrorValue: the mapping in both output modes. *)
ErrorValueAlwaysMapping(output, e) ==
    ErrorDict(<<"Error executing LLM: ">> \o e.v.s)

(* the except branch of the wrapper: the value returned for exception e *)
ErrorValue(output, e) ==
    LET error_msg == <<"Error executing LLM: ">> \o e.v.s
    IN  IF output = "json" THEN ErrorDict(error_msg) ELSE VStr(error_msg)

(* Mutation of FormatResponse: the response parsed in both output modes. *)
FormatResponseAlwaysParse(output, text) == StringToDict(text)

(* the return statement of the try block, for response.text = text *)
FormatResponse(output, text) ==
    IF output = "json" THEN StringToDict(text) ELSE Ret(text)

(* A call the invocation makes, to the SDK or to the wrapped function: the *)
(* callee, its arguments (key for genai.Client; model, contents and config *)
(* for generate_content and chats.create, where config is absent when      *)
(* hasConfig is false; params for GenerateContentConfig) and what the call *)
(* did.                                                                    *)
Event(op, arg, result) ==
    [op |-> op, model |-> "", contents |-> VNone, hasConfig |-> FALSE,
     arg |-> arg, result |-> result]

BackendCall(op, model, contents, config, result) ==
    [op |-> op, model |-> model, contents |-> contents,
     hasConfig |-> Truthy(config), arg |-> config, result |-> result]

(* config = the GenerateContentConfig of params if params else None: the   *)
(* constructor call, made only for params that are not empty               *)
ConfigEvents(params, made) ==
    IF Truthy(params)
    THEN <<Event("GenerateContentConfig", params, made)>>
    ELSE <<>>

(* the body of the try block, for config_params = params: the calls made   *)
(* and the exception raised or the value returned                          *)
TryBlock(o, text_output, b, params) ==
    IF Truthy(params) /\ b.config.st = "raise"
    THEN [calls |-> ConfigEvents(params, b.config), r |-> b.config]
    ELSE [calls |-> ConfigEvents(params, Ret(MakeConfig(params)))
                    \o <<BackendCall("generate_content", o.model_name,
                                     text_output, MakeConfig(params),
                                     b.generate)>>,
          r |-> IF b.generate.st = "raise"
                THEN b.generate
                ELSE FormatResponse(o.output, b.generate.v)]

(* except Exception: what the try block raised is returned as a value *)
Caught(output, tried) ==
    [calls |-> tried.calls,
     r |-> IF tried.r.st = "raise"
           THEN Ret(ErrorValue(output, tried.r))
           ELSE tried.r]

(***************************************************************************)
(* The try block of the wrapper.  b is what the SDK does in this call:     *)
(* b.config is the exception GenerateContentConfig raises (or NoOutcome),  *)
(* b.generate is what generate_content does, a raise or a response text.   *)
(* The result is the calls made and the wrapper's outcome.                 *)
(***************************************************************************)
TryGenerate(o, text_output, b) ==
    Caught(o.output, TryBlock(o, text_output, b, ConfigParams(o)))

(* create_chat_session after the client: no try block *)
OpenChat(o, b) ==
    LET params == ChatConfigParams(o)
        made == IF b.config.st = "raise" THEN b.config
                ELSE Ret(MakeConfig(params))
        call == BackendCall("chats.create", o.model_name, VNone,
                            MakeConfig(params), b.chat)
    IN  IF Truthy(params) /\ made.st = "raise"
        THEN [calls |-> ConfigEvents(params, made), r |-> made]
        ELSE [calls |-> ConfigEvents(params, made) \o <<call>>, r |-> b.chat]

(***************************************************************************)
(* create_function_tool (main.py 144-198).  A Python function is a record  *)
(* of what inspect reads from it: name is func.__name__, doc is            *)
(* func.__doc__ (None or a str), params is the parameters of               *)
(* inspect.signature(func), in order, each with its name, its annotation   *)
(* and its default.                                                        *)
(***************************************************************************)
(* inspect.Parameter.empty: no annotation, no default *)
Empty == Val("inspect._empty", 0, <<>>, <<>>, <<>>)

(* a type object used as an annotation: int, float, list, str ... *)
VType(name) == Val("type", 0, <<name>>, <<>>, <<>>)

Parameter(name, annotation, default) ==
    [name |-> name, annotation |-> annotation, default |-> default]

Function(name, doc, params) == [name |-> name, doc |-> doc, params |-> params]

(* str.expandtabs(): a tab becomes the spaces up to the next multiple of 8 *)
RECURSIVE ExpandTabsFrom(_, _)
ExpandTabsFrom(s, col) ==
    IF s = <<>> THEN <<>>
    ELSE IF s[1] = "\t"
    THEN Spaces(8 - (col % 8)) \o ExpandTabsFrom(Tail(s), 0)
    ELSE IF s[1] \in {"\n", "\r"}
    THEN <<s[1]>> \o ExpandTabsFrom(Tail(s), 0)
    ELSE <<s[1]>> \o ExpandTabsFrom(Tail(s), col + 1)

ExpandTabs(s) == ExpandTabsFrom(s, 0)

(* str.split('\n') *)
RECURSIVE SplitLines(_)
SplitLines(s) ==
    LET breaks == {n \in 1..Len(s) : s[n] = "\n"}
    IN  IF breaks = {} THEN <<s>>
        ELSE <<SubSeq(s, 1, Least(breaks) - 1)>>
             \o SplitLines(SubSeq(s, Least(breaks) + 1, Len(s)))

(* '\n'.join(lines) *)
RECURSIVE JoinLines(_)
JoinLines(lines) ==
    IF lines = <<>> THEN <<>>
    ELSE IF Len(lines) = 1 THEN lines[1]
    ELSE lines[1] \o <<"\n">> \o JoinLines(Tail(lines))

RECURSIVE DropLeadingEmpty(_)
DropLeadingEmpty(lines) ==
    IF lines # <<>> /\ lines[1] = <<>>
    THEN DropLeadingEmpty(Tail(lines))
    ELSE lines

RECURSIVE DropTrailingEmpty(_)
DropTrailingEmpty(lines) ==
    IF lines # <<>> /\ lines[Len(lines)] = <<>>
    THEN DropTrailingEmpty(SubSeq(lines, 1, Len(lines) - 1))
    ELSE lines

(* the first line stripped on the left, and the indentation common to the  *)
(* lines after it that are not blank removed from each of them             *)
Unindent(lines) ==
    LET rest == {n \in 2..Len(lines) : LStrip(lines[n]) # <<>>}
        margin == Least({Len(lines[n]) - Len(LStrip(lines[n])) : n \in rest})
    IN  [n \in 1..Len(lines) |->
            IF n = 1 THEN LStrip(lines[1])
            ELSE IF rest = {} THEN lines[n]
            ELSE SubSeq(lines[n], margin + 1, Len(lines[n]))]

(* inspect.cleandoc(doc) *)
CleanDoc(doc) ==
    JoinLines(DropLeadingEmpty(DropTrailingEmpty(
        Unindent(SplitLines(ExpandTabs(doc))))))

(* inspect.getdoc(func) for a plain function: None without a docstring,    *)
(* else the docstring cleaned                                              *)
GetDoc(func) ==
    IF func.doc = VNone THEN VNone ELSE VStr(CleanDoc(func.doc.s))

(* Mutation of ParamType: the annotation tested with issubclass, so that   *)
(* bool, a subclass of int, is an INTEGER.                                 *)
ParamTypeSubclass(param) ==
    IF param.annotation # Empty
    THEN CASE param.annotation \in {VType("int"), VType("bool")} -> "INTEGER"
           [] param.annotation = VType("float") -> "NUMBER"
           [] param.annotation = VType("list") -> "ARRAY"
           [] param.annotation = VType("dict") -> "OBJECT"
           [] OTHER -> "STRING"
    ELSE "STRING"

(* param_type of a parameter *)
ParamType(param) ==
    IF param.annotation # Empty
    THEN CASE param.annotation = VType("int") -> "INTEGER"
           [] param.annotation = VType("float") -> "NUMBER"
           [] param.annotation = VType("bool") -> "BOOLEAN"
           [] param.annotation = VType("list") -> "ARRAY"
           [] param.annotation = VType("dict") -> "OBJECT"
           [] OTHER -> "STRING"
    ELSE "STRING"

(* types.Schema(type=param_type, description=f"Parameter {param_name}") *)
ParamSchema(param) ==
    SdkObject("Schema", <<<<"type">>, <<"description">>>>,
              <<VStr(<<ParamType(param)>>),
                VStr(<<"Parameter ">> \o param.name)>>)

(* the loop over sig.parameters: properties and required after the first n *)
(* parameters                                                              *)
RECURSIVE ParseParameters(_, _)
ParseParameters(params, n) ==
    IF n = 0 THEN [properties |-> VDict(<<>>, <<>>), required |-> <<>>]
    ELSE LET before == ParseParameters(params, n - 1)
             param == params[n]
         IN  IF param.name = <<"self">> THEN before
             ELSE [properties |->
                       DictSet(before.properties, param.name,
                               ParamSchema(param)),
                   required |->
                       IF param.default = Empty
                       THEN Append(before.required, VStr(param.name))
                       ELSE before.required]

(* types.FunctionDeclaration(name, description, parameters) *)
FunctionDeclaration(name, description, parsed) ==
    SdkObject("FunctionDeclaration",
              <<<<"name">>, <<"description">>, <<"parameters">>>>,
              <<VStr(name), description,
                SdkObject("Schema",
                          <<<<"type">>, <<"properties">>, <<"required">>>>,
                          <<VStr(<<"OBJECT">>), parsed.properties,
                            VList(parsed.required)>>)>>)

(* AgentsUtils.create_function_tool(func) *)
CreateFunctionTool(func) ==
    LET doc == PyOr(GetDoc(func), VStr(<<"Function ">> \o func.name))
    IN  SdkObject("Tool", <<<<"function_declarations">>>>,
                  <<VList(<<FunctionDeclaration(
                                func.name, doc,
                                ParseParameters(func.params,
                                                Len(func.params)))>>)>>)

(***************************************************************************)
(* State.                                                                  *)
(*   api         which entry point was used: a decorator or the chat       *)
(*               session factory                                           *)
(*   opts        the keyword options given to it                           *)
(*   env         os.environ: the two credential variables                  *)
(*   pc          the position of the current invocation                    *)
(*   key         the credential resolved by the current invocation         *)
(*   log         the calls the current invocation has made so far, to the  *)
(*               SDK and to the wrapped function, in order                 *)
(*   outcome     what the invocation returned or raised                    *)
(*   invocation  the number of invocations started                         *)
(*   clients     the number of clients constructed over all invocations    *)
(*   uop, uheap, uarg, ures, uorig                                         *)
(*               the last call of a Utils function: which one, the heap    *)
(*               and argument it was given, its outcome, and the dict a    *)
(*               round trip started from                                   *)
(*   tool_func, tool                                                       *)
(*               the function given to create_function_tool and what the   *)
(*               call returned                                             *)
(***************************************************************************)
VARIABLES api, opts, env, pc, key, log, outcome, invocation, clients,
          uop, uheap, uarg, ures, uorig, tool_func, tool

adapterVars == <<api, opts, env, pc, key, log, outcome, invocation, clients>>

utilsVars == <<uop, uheap, uarg, ures, uorig>>

toolVars == <<tool_func, tool>>

vars == <<adapterVars, utilsVars, toolVars>>

(***************************************************************************)
(* Bounds and input pools.                                                 *)
(***************************************************************************)
MaxInvocations == 2

MaxKeys == 2

MaxObjs == 2

ApiKeys == {VNone, VStr(<<>>), VStr(<<"K">>)}

GoogleKeys == {VNone, VStr(<<>>), VStr(<<"G">>)}

GeminiKeys == {VNone, VStr(<<>>), VStr(<<"M">>)}

ToolLists == {VNone, VList(<<>>), VList(<<VFunc("get_time")>>)}

SystemInstructions == {VNone, VStr(<<>>), VStr(<<"be brief">>)}

Temperatures == {VNone, VInt(0), VInt(1)}

TokenLimits == {VNone, VInt(0), VInt(64)}

FunctionCallCaps == {MaxFunctionCallsDefault, 1}

Options(output, api_key, tools, afc, cap, sys, temp, limit) ==
    [model_name |-> ModelNameDefault, output |-> output, api_key |-> api_key,
     tools |-> tools, automatic_function_calling |-> afc,
     max_function_calls |-> cap, system_instruction |-> sys,
     temperature |-> temp, max_output_tokens |-> limit]

(* execute_llm_with_tools(...): every keyword option *)
ToolsDecoratorOptions ==
    {Options(output, api_key, tools, afc, cap, sys, temp, limit) :
        output \in {"json", "text"}, api_key \in ApiKeys, tools \in ToolLists,
        afc \in BOOLEAN, cap \in FunctionCallCaps, sys \in SystemInstructions,
        temp \in Temperatures, limit \in TokenLimits}

(* execute_llm(...) delegates with tools=None and the defaults of the      *)
(* function-calling options                                                *)
PlainDecoratorOptions ==
    {Options(output, api_key, VNone, TRUE, MaxFunctionCallsDefault, sys,
             temp, limit) :
        output \in {"json", "text"}, api_key \in ApiKeys,
        sys \in SystemInstructions, temp \in Temperatures,
        limit \in TokenLimits}

(* create_chat_session(...) has the key, system instruction and tools; the *)
(* other fields do not exist there and are never read                      *)
ChatOptions ==
    {Options("text", api_key, tools, TRUE, MaxFunctionCallsDefault, sys,
             VNone, VNone) :
        api_key \in ApiKeys, tools \in ToolLists, sys \in SystemInstructions}

Environments ==
    [GOOGLE_API_KEY : GoogleKeys, GEMINI_API_KEY : GeminiKeys]

(* What the SDK and the wrapped function may do. *)
ClientFailure == Raise("ValueError", <<"client construction failed">>)

PromptFailure == Raise("RuntimeError", <<"prompt function failed">>)

ConfigFailure == Raise("ValidationError", <<"invalid config">>)

ChatFailure == Raise("ClientError", <<"chat failed">>)

GenerateFailures ==
    {Raise("ClientError", <<"503 UNAVAILABLE">>), Raise("Exception", <<>>)}

ObjectText == <<"{", "\"", "a", "\"", ":", " ", "1", "}">>

ResponseTexts ==
    {VNone,
     VStr(ObjectText),
     VStr(FencePython \o <<"\n">> \o ObjectText \o <<"\n">> \o Fence),
     VStr(<<"[", "1", ",", " ", "2", "]">>),
     VStr(<<"4", "2">>),
     VStr(<<"n", "o", "t", " ", "j", "s", "o", "n">>)}

BackendBehaviours ==
    [config : {NoOutcome, ConfigFailure},
     generate : GenerateFailures \cup {Ret(t) : t \in ResponseTexts}]

ChatBehaviours ==
    [config : {NoOutcome, ConfigFailure},
     chat : {Ret(SdkObject("Chat", <<>>, <<>>)), ChatFailure}]

PromptText == VStr(<<"Say hello">>)

idleUtils ==
    /\ uop = "none"
    /\ uheap = <<>>
    /\ uarg = VNone
    /\ ures = NoOutcome
    /\ uorig = VNone

idleTools ==
    /\ tool_func = VNone
    /\ tool = NoOutcome

(* The state before the first invocation, for a set of (api, options)      *)
(* pairs and a set of (api_key, environment) pairs.                        *)
InitOf(decorated, credentials) ==
    /\ \E d \in decorated, c \in credentials :
          /\ api = d[1]
          /\ opts = [d[2] EXCEPT !.api_key = c[1]]
          /\ env = c[2]
    /\ pc = "idle"
    /\ key = VNone
    /\ log = <<>>
    /\ outcome = NoOutcome
    /\ invocation = 0
    /\ clients = 0
    /\ idleUtils
    /\ idleTools

WithApiKey(options, api_key) ==
    {o \in options : o.api_key = api_key}

AllDecorated ==
    ({"execute_llm_with_tools"} \X WithApiKey(ToolsDecoratorOptions, VNone))
    \cup ({"execute_llm"} \X WithApiKey(PlainDecoratorOptions, VNone))
    \cup ({"create_chat_session"} \X WithApiKey(ChatOptions, VNone))

NoEnvironment == [GOOGLE_API_KEY |-> VNone, GEMINI_API_KEY |-> VNone]

(* Every combination of options, with no credential, with the api_key      *)
(* parameter, or with GOOGLE_API_KEY.                                      *)
Init ==
    InitOf(AllDecorated,
           {<<VNone, NoEnvironment>>,
            <<VStr(<<"K">>), NoEnvironment>>,
            <<VNone, [NoEnvironment EXCEPT !.GOOGLE_API_KEY = VStr(<<"G">>)]>>})

(* The options that matter after the credential is resolved left at their  *)
(* defaults, with every combination of the three credential sources.       *)
DefaultDecorated ==
    {d \in AllDecorated :
        /\ d[2].tools = VNone
        /\ d[2].system_instruction = VNone
        /\ d[2].temperature = VNone
        /\ d[2].max_output_tokens = VNone}

InitCredentials == InitOf(DefaultDecorated, ApiKeys \X Environments)

(***************************************************************************)
(* The wrapper of execute_llm_with_tools (main.py 39-107) and              *)
(* create_chat_session (main.py 219-236), step by step.                    *)
(***************************************************************************)
(* the calls of the log made to op *)
Calls(op) == SelectSeq(log, LAMBDA c : c.op = op)


(* Mutation of ResolveCredential: the check of the key left out. *)
ResolveCredentialUnchecked ==
    /\ pc \in {"idle", "done"}
    /\ invocation < MaxInvocations
    /\ invocation' = invocation + 1
    /\ log' = <<>>
    /\ key' = ResolveKey(opts.api_key, env)
    /\ outcome' = NoOutcome
    /\ pc' = "client"
    /\ UNCHANGED <<api, opts, env, clients, utilsVars, toolVars>>

(* key = ... ; if not key: raise ValueError(...).  An invocation starts    *)
(* with fresh locals.                                                      *)
ResolveCredential ==
    /\ pc \in {"idle", "done"}
    /\ invocation < MaxInvocations
    /\ invocation' = invocation + 1
    /\ log' = <<>>
    /\ key' = ResolveKey(opts.api_key, env)
    /\ IF ~Truthy(key')
       THEN outcome' = KeyRequired /\ pc' = "done"
       ELSE outcome' = NoOutcome /\ pc' = "client"
    /\ UNCHANGED <<api, opts, env, clients, utilsVars, toolVars>>


(* Mutation of ConstructClient: the constructor moved into the try block,  *)
(* so its exception is converted to the error value.                       *)
ConstructClientInsideTry ==
    /\ pc = "client"
    /\ \/ /\ log' = Append(log, Event("Client", key,
                                      Ret(SdkObject("Client", <<>>, <<>>))))
          /\ clients' = clients + 1
          /\ pc' = IF api = "create_chat_session" THEN "chat" ELSE "prompt"
          /\ UNCHANGED outcome
       \/ /\ log' = Append(log, Event("Client", key, ClientFailure))
          /\ outcome' = Ret(ErrorValue(opts.output, ClientFailure))
          /\ pc' = "done"
          /\ UNCHANGED clients
    /\ UNCHANGED <<api, opts, env, key, invocation, utilsVars, toolVars>>

(* client = genai.Client(api_key=key), outside any try block: an exception *)
(* of the constructor leaves the invocation                                *)
ConstructClient ==
    /\ pc = "client"
    /\ \/ /\ log' = Append(log, Event("Client", key,
                                      Ret(SdkObject("Client", <<>>, <<>>))))
          /\ clients' = clients + 1
          /\ pc' = IF api = "create_chat_session" THEN "chat" ELSE "prompt"
          /\ UNCHANGED outcome
       \/ /\ log' = Append(log, Event("Client", key, ClientFailure))
          /\ outcome' = ClientFailure
          /\ pc' = "done"
          /\ UNCHANGED clients
    /\ UNCHANGED <<api, opts, env, key, invocation, utilsVars, toolVars>>


(* Mutation of CallPrompt: the call moved into the try block, so its       *)
(* exception is converted to the error value.                              *)
CallPromptInsideTry ==
    /\ pc = "prompt"
    /\ \/ /\ log' = Append(log, Event("func", VNone, Ret(PromptText)))
          /\ pc' = "generate"
          /\ UNCHANGED outcome
       \/ /\ log' = Append(log, Event("func", VNone, PromptFailure))
          /\ outcome' = Ret(ErrorValue(opts.output, PromptFailure))
          /\ pc' = "done"
    /\ UNCHANGED <<api, opts, env, key, invocation, clients, utilsVars, toolVars>>

(* text_output = func(...), outside the try block: an exception of the     *)
(* wrapped function leaves the invocation                                  *)
CallPrompt ==
    /\ pc = "prompt"
    /\ \/ /\ log' = Append(log, Event("func", VNone, Ret(PromptText)))
          /\ pc' = "generate"
          /\ UNCHANGED outcome
       \/ /\ log' = Append(log, Event("func", VNone, PromptFailure))
          /\ outcome' = PromptFailure
          /\ pc' = "done"
    /\ UNCHANGED <<api, opts, env, key, invocation, clients, utilsVars, toolVars>>

(* the calls of a step join the log and its result is the outcome *)
Finish(done) ==
    /\ log' = log \o done.calls
    /\ outcome' = done.r

(* Mutation of Generate: a failed generate call is tried once more before  *)
(* the error value is returned.                                            *)
GenerateWithRetry ==
    /\ pc = "generate"
    /\ \E b \in BackendBehaviours :
          LET done == TryGenerate(opts, Calls("func")[1].result.v, b)
          IN  IF b.generate.st = "raise" /\ Calls("generate_content") = <<>>
              THEN /\ log' = log \o done.calls
                   /\ pc' = "generate"
                   /\ UNCHANGED outcome
              ELSE /\ Finish(done)
                   /\ pc' = "done"
    /\ UNCHANGED <<api, opts, env, key, invocation, clients, utilsVars,
                   toolVars>>

(* the try block and its except branch *)
Generate ==
    /\ pc = "generate"
    /\ \E b \in BackendBehaviours :
          Finish(TryGenerate(opts, Calls("func")[1].result.v, b))
    /\ pc' = "done"
    /\ UNCHANGED <<api, opts, env, key, invocation, clients, utilsVars, toolVars>>

(* create_chat_session after the client: config, then chats.create *)
CreateChat ==
    /\ pc = "chat"
    /\ \E b \in ChatBehaviours :
          Finish(OpenChat(opts, b))
    /\ pc' = "done"
    /\ UNCHANGED <<api, opts, env, key, invocation, clients, utilsVars, toolVars>>

Next ==
    \/ ResolveCredential
    \/ ConstructClient
    \/ CallPrompt
    \/ Generate
    \/ CreateChat

Spec == Init /\ [][Next]_vars

SpecCredentials == InitCredentials /\ [][Next]_vars

(***************************************************************************)
(* Calls of the Utils functions (utils.py 5-19), on pools of arguments: a   *)
(* run is one call, and after dict_to_string the round trip back.          *)
(***************************************************************************)
StrPool ==
    {<<>>, <<"v">>, <<" ">>, <<BT, BT>>, Fence, FencePython,
     <<"a">> \o Fence \o <<"b">>, <<"\"", "\\", "\n">>}

PrimitivePool ==
    {VNone, VBool(TRUE), VBool(FALSE), VInt(0), VInt(42), VInt(-7)}
    \cup {VStr(x) : x \in StrPool}

KeyPool == {<<"a">>, <<"b">>, <<"c">>}

(* the dicts of up to MaxKeys distinct keys with primitive values *)
DictPool ==
    UNION {{VDict(ks, vs) :
               ks \in {f \in [1..n -> KeyPool] :
                          \A x, y \in 1..n : f[x] = f[y] => x = y},
               vs \in [1..n -> PrimitivePool]} : n \in 0..MaxKeys}

(* heaps of up to MaxObjs container objects, each holding one item: an     *)
(* int, a set, or a reference to an object of the heap                     *)
HeapItems(n) == {VInt(1), VSet} \cup {VRef(a) : a \in 1..n}

HeapObjects(n) ==
    {VDict(<<<<"k">>>>, <<x>>) : x \in HeapItems(n)}
    \cup {VList(<<x>>) : x \in HeapItems(n)}

HeapPool == UNION {[1..n -> HeapObjects(n)] : n \in 1..MaxObjs}

NotJsonText == <<"n", "o", "t", " ", "j", "s", "o", "n">>

(* a JSON number of one digit more than int() accepts *)
LongNumberText == [n \in 1..(IntMaxStrDigits + 1) |-> "1"]

WellFormedTexts ==
    {ObjectText,
     FencePython \o <<"\n">> \o ObjectText \o <<"\n">> \o Fence,
     Fence \o ObjectText \o Fence,
     <<" ", "\n">> \o ObjectText \o <<"\n">>,
     <<"{", "}">>,
     <<"{", "\"", "a", "\"", ":", "{", "\"", "b", "\"", ":", "[", "t", "r",
       "u", "e", ",", "f", "a", "l", "s", "e", "]", "}", ",", "\"", "a", "\"",
       ":", "n", "u", "l", "l", "}">>,
     <<"[", "1", ",", " ", "2", "]">>,
     <<"[", "]">>,
     <<"4", "2">>,
     <<"-", "7">>,
     <<"n", "u", "l", "l">>,
     <<"\"", "h", "\\", "n", "i", "\"">>,
     LongNumberText}

(* texts that are not JSON once their fences and outer blanks are removed *)
MalformedTexts ==
    {NotJsonText,
     <<>>,
     Fence,
     Fence \o <<"\n">> \o NotJsonText \o <<"\n">> \o Fence,
     <<"{", "\"", "a", "\"", ":", " ", "1">>,
     <<"{", "\"", "a", "\"", " ", "1", "}">>,
     <<"{", "\"", "a", "\"", ":", "}">>,
     <<"{", "a", ":", "1", "}">>,
     <<"{", "\"", "a", "\"", ":", "1", ",", "}">>,
     ObjectText \o <<" ", "x">>,
     <<"[", "1", ",", " ", "2">>,
     <<"[", "1", ",", "]">>,
     <<"[", "1", " ", "2", "]">>,
     <<"0", "1">>,
     <<"-">>,
     <<"\"", "a", "b">>,
     <<"\"", "a", "\\">>,
     <<"\"", "a", "\\", "q", "\"">>,
     <<"\"", "a", "\n", "b", "\"">>,
     <<"n", "u", "l">>}

TextPool == WellFormedTexts \cup MalformedTexts

InitUtils ==
    /\ api = "execute_llm"
    /\ opts = Options("json", VNone, VNone, TRUE, MaxFunctionCallsDefault,
                      VNone, VNone, VNone)
    /\ env = NoEnvironment
    /\ pc = "idle"
    /\ key = VNone
    /\ log = <<>>
    /\ outcome = NoOutcome
    /\ invocation = 0
    /\ clients = 0
    /\ idleUtils
    /\ idleTools

(* Utils.dict_to_string(d) for a dict of primitives *)
CallDictToString ==
    /\ uop = "none"
    /\ \E d \in DictPool :
          /\ uheap' = <<>>
          /\ uarg' = d
          /\ ures' = DictToString(<<>>, d)
          /\ uorig' = d
    /\ uop' = "dict_to_string"
    /\ UNCHANGED <<adapterVars, toolVars>>

(* Utils.dict_to_string(v) for an object of a heap: a structure that may   *)
(* hold a set or contain itself                                            *)
CallDictToStringObject ==
    /\ uop = "none"
    /\ \E h \in HeapPool :
          /\ uheap' = h
          /\ uarg' = VRef(1)
          /\ ures' = DictToString(h, VRef(1))
          /\ uorig' = VRef(1)
    /\ uop' = "dict_to_string"
    /\ UNCHANGED <<adapterVars, toolVars>>

(* Utils.string_to_dict(s) for a text *)
CallStringToDict ==
    /\ uop = "none"
    /\ \E t \in TextPool :
          /\ uarg' = VStr(t)
          /\ ures' = StringToDict(VStr(t))
    /\ uheap' = <<>>
    /\ uorig' = VNone
    /\ uop' = "string_to_dict"
    /\ UNCHANGED <<adapterVars, toolVars>>

(* Utils.string_to_dict(json_str) on the string Utils.dict_to_string has   *)
(* just returned, as test_utils does                                       *)
RoundTrip ==
    /\ uop = "dict_to_string"
    /\ ures.st = "return"
    /\ uarg' = ures.v
    /\ ures' = StringToDict(ures.v)
    /\ uop' = "round_trip"
    /\ UNCHANGED <<uheap, uorig, adapterVars, toolVars>>

NextUtils ==
    \/ CallDictToString
    \/ CallDictToStringObject
    \/ CallStringToDict
    \/ RoundTrip

SpecUtils == InitUtils /\ [][NextUtils]_vars

(***************************************************************************)
(* Calls of create_function_tool (main.py 144-198) on a pool of functions: *)
(* a run is one call.                                                      *)
(***************************************************************************)
MaxParams == 2

ParamNames == {<<"location">>, <<"count">>, <<"self">>}

(* annotations: none, the five types of the table, a type outside it, a    *)
(* string annotation (as left by postponed evaluation), a generic alias    *)
Annotations ==
    {Empty, VType("int"), VType("float"), VType("bool"), VType("list"),
     VType("dict"), VType("str"), VStr(<<"i", "n", "t">>),
     VType("list[int]")}

(* a parameter without a default, under every annotation; parameters with  *)
(* a default, None included                                                *)
ParamPool ==
    {Parameter(name, a, Empty) : name \in ParamNames, a \in Annotations}
    \cup {Parameter(name, VType("int"), VInt(5)) : name \in ParamNames}
    \cup {Parameter(name, Empty, VNone) : name \in ParamNames}
    \cup {Parameter(name, VType("str"), VStr(<<>>)) : name \in ParamNames}

(* signatures of up to MaxParams parameters, their names distinct *)
SignaturePool ==
    UNION {{ps \in [1..n -> ParamPool] :
               \A x, y \in 1..n : ps[x].name = ps[y].name => x = y} :
           n \in 0..MaxParams}

GetWeather == <<"G", "e", "t", " ", "w", "e", "a", "t", "h", "e", "r">>

(* __doc__: none, empty, blank, one line, an indented block as written     *)
(* under a def, a block indented with a tab and with spaces                *)
DocPool ==
    {VNone,
     VStr(<<>>),
     VStr(<<" ", " ">>),
     VStr(GetWeather),
     VStr(<<"\n", " ", " ">> \o GetWeather \o <<"\n", "\n", " ", " ", " ",
            "x", "\n", " ", " ">>),
     VStr(<<"a", "\n", "\t", "b", "\n", " ", " ", " ", " ", " ", " ", " ",
            " ", "c">>)}

FunctionPool ==
    {Function(<<"get_weather">>, doc, ps) :
        doc \in DocPool, ps \in SignaturePool}

InitTools ==
    /\ api = "execute_llm_with_tools"
    /\ opts = Options("text", VNone, VNone, TRUE, MaxFunctionCallsDefault,
                      VNone, VNone, VNone)
    /\ env = NoEnvironment
    /\ pc = "idle"
    /\ key = VNone
    /\ log = <<>>
    /\ outcome = NoOutcome
    /\ invocation = 0
    /\ clients = 0
    /\ idleUtils
    /\ tool_func \in FunctionPool
    /\ tool = NoOutcome

(* AgentsUtils.create_function_tool(tool_func) *)
CallCreateFunctionTool ==
    /\ tool = NoOutcome
    /\ tool' = Ret(CreateFunctionTool(tool_func))
    /\ UNCHANGED <<tool_func, adapterVars, utilsVars>>

NextTools == CallCreateFunctionTool

SpecTools == InitTools /\ [][NextTools]_vars

(***************************************************************************)
(* Properties.                                                             *)
(***************************************************************************)
Decorated == api \in {"execute_llm", "execute_llm_with_tools"}

(* a credential source that is absent or empty *)
Absent(v) == v = VNone \/ v = VStr(<<>>)

NoCredential ==
    /\ Absent(opts.api_key)
    /\ Absent(env.GOOGLE_API_KEY)
    /\ Absent(env.GEMINI_API_KEY)

Raised(op) == Calls(op) # <<>> /\ Calls(op)[1].result.st = "raise"

Returned(op) == Calls(op) # <<>> /\ Calls(op)[1].result.st = "return"

(* the value the spec gives for a failure with message m *)
ErrorValueFor(m) ==
    IF opts.output = "json"
    THEN VDict(<<KeyError>>, <<VStr(<<"Error executing LLM: ">> \o m)>>)
    ELSE VStr(<<"Error executing LLM: ">> \o m)

(* C1: with no credential from the api_key parameter, GOOGLE_API_KEY or    *)
(* GEMINI_API_KEY (each absent or empty), an invocation of a decorated     *)
(* function raises the credential-required error, and in that invocation   *)
(* no client is constructed, the wrapped function is not called and no     *)
(* generate call is made.                                                  *)
C1_NoCredentialRaises ==
    (Decorated /\ NoCredential /\ invocation > 0) =>
        /\ pc = "done"
        /\ outcome.st = "raise"
        /\ outcome.exc = "ValueError"
        /\ outcome.v.s = <<"API key required. Set GOOGLE_API_KEY environment variable or pass api_key parameter.">>
        /\ Calls("Client") = <<>>
        /\ Calls("func") = <<>>
        /\ Calls("generate_content") = <<>>
        /\ clients = 0

C1_Witness ==
    /\ api = "execute_llm_with_tools"
    /\ opts.api_key = VStr(<<>>)
    /\ env.GOOGLE_API_KEY = VNone
    /\ env.GEMINI_API_KEY = VStr(<<>>)
    /\ invocation = 2
    /\ pc = "done"
    /\ outcome = KeyRequired
    /\ log = <<>>

(* C2: when generate_content raises an exception with message m, the       *)
(* decorated function returns: the mapping {error: "Error executing LLM:   *)
(* m"} in json mode, the string "Error executing LLM: m" in text mode.     *)
C2_GenerateFailureReturned ==
    (Decorated /\ pc = "done" /\ Raised("generate_content")) =>
        outcome =
            Ret(ErrorValueFor(Calls("generate_content")[1].result.v.s))

C2_Witness ==
    /\ Decorated
    /\ pc = "done"
    /\ opts.output = "text"
    /\ Raised("generate_content")
    /\ outcome = Ret(VStr(<<"Error executing LLM: ", "503 UNAVAILABLE">>))

(* C3: when the wrapped function raises, its exception reaches the caller  *)
(* unmodified, in either output mode, and the invocation makes no generate *)
(* call.                                                                   *)
C3_PromptFailurePropagates ==
    (Decorated /\ Raised("func")) =>
        /\ pc = "done"
        /\ outcome = Calls("func")[1].result
        /\ Calls("generate_content") = <<>>

C3_Witness ==
    /\ Decorated
    /\ opts.output = "json"
    /\ Raised("func")
    /\ Len(Calls("Client")) = 1
    /\ outcome = PromptFailure

(* C4, as stated: an exception of the client constructor is returned as    *)
(* the "Error executing LLM" value and never raised.                       *)
C4_ClientFailureReturned ==
    (Decorated /\ pc = "done" /\ Raised("Client")) =>
        outcome = Ret(ErrorValueFor(Calls("Client")[1].result.v.s))

(* C4, amended: an exception of the client constructor is not caught, it   *)
(* reaches the caller unmodified, before the wrapped function is called    *)
(* and before any generate call; an exception of GenerateContentConfig,    *)
(* inside the try block, is returned as the "Error executing LLM" value.   *)
C4_ClientFailurePropagates ==
    /\ (Decorated /\ Raised("Client")) =>
          /\ pc = "done"
          /\ outcome = Calls("Client")[1].result
          /\ Calls("func") = <<>>
          /\ Calls("generate_content") = <<>>
    /\ (Decorated /\ pc = "done" /\ Raised("GenerateContentConfig")) =>
          /\ outcome =
                Ret(ErrorValueFor(Calls("GenerateContentConfig")[1].result.v.s))
          /\ Calls("generate_content") = <<>>

C4_Witness ==
    /\ api = "execute_llm"
    /\ opts.output = "json"
    /\ Raised("Client")
    /\ pc = "done"
    /\ outcome = ClientFailure

(* equality of Python values: dicts are equal when they hold the same      *)
(* items, in any order                                                     *)
RECURSIVE PyEq(_, _)
PyEq(a, b) ==
    IF a.t = "dict" /\ b.t = "dict"
    THEN /\ {a.k[n] : n \in 1..Len(a.k)} = {b.k[n] : n \in 1..Len(b.k)}
         /\ \A n \in 1..Len(a.k) : PyEq(a.e[n], Get(b, a.k[n]))
    ELSE IF a.t = "list" /\ b.t = "list"
    THEN /\ Len(a.e) = Len(b.e)
         /\ \A n \in 1..Len(a.e) : PyEq(a.e[n], b.e[n])
    ELSE a = b

(* C5: for every mapping m of primitive values, strings that hold a fence  *)
(* included, string_to_dict(dict_to_string(m)) equals m.                   *)
C5_RoundTrip ==
    (uop = "round_trip" /\ uorig \in DictPool) =>
        /\ ures.st = "return"
        /\ PyEq(ures.v, uorig)

IsErrorDict(v, prefix) ==
    /\ v.t = "dict"
    /\ v.k = <<KeyError>>
    /\ v.e[1].t = "str"
    /\ v.e[1].s # <<>>
    /\ v.e[1].s[1] = prefix

(* C6: for every text, string_to_dict returns a value and never raises;    *)
(* for malformed text the value is a mapping with the key error whose      *)
(* message starts with "Invalid string format".                            *)
C6_StringToDictTotal ==
    (uop \in {"string_to_dict", "round_trip"}) =>
        /\ ures.st = "return"
        /\ uarg.s \in MalformedTexts =>
              IsErrorDict(ures.v, "Invalid string format")

(* the objects of the heap that v refers to directly *)
RECURSIVE Refs(_)
Refs(v) ==
    CASE v.t = "ref" -> {v.i}
      [] v.t \in {"dict", "list"} -> UNION {Refs(v.e[n]) : n \in 1..Len(v.e)}
      [] OTHER -> {}

RECURSIVE Closure(_, _)
Closure(heap, S) ==
    LET more == S \cup UNION {Refs(heap[a]) : a \in S}
    IN  IF more = S THEN S ELSE Closure(heap, more)

(* the objects of the heap that v refers to, directly or through others *)
Reach(heap, v) == Closure(heap, Refs(v))

RECURSIVE HoldsSet(_)
HoldsSet(v) ==
    \/ v.t = "set"
    \/ v.t \in {"dict", "list"} /\ \E n \in 1..Len(v.e) : HoldsSet(v.e[n])

(* v holds a value of an unsupported type *)
Unsupported(heap, v) ==
    HoldsSet(v) \/ \E a \in Reach(heap, v) : HoldsSet(heap[a])

(* v contains a cycle: an object it reaches holds itself *)
Cyclic(heap, v) ==
    \E a \in Reach(heap, v) : a \in Reach(heap, heap[a])

(* C7: for every input that cannot be serialized, an unsupported type as   *)
(* well as a structure with a cycle, dict_to_string does not raise and     *)
(* returns a string that begins with "Error: Invalid dictionary format".   *)
C7_DictToStringTotal ==
    (uop = "dict_to_string" /\ (Unsupported(uheap, uarg) \/ Cyclic(uheap, uarg)))
        => /\ ures.st = "return"
           /\ ures.v.t = "str"
           /\ ures.v.s # <<>>
           /\ ures.v.s[1] = "Error: Invalid dictionary format"

(* C8: in json mode, whenever the wrapped function returns normally, the   *)
(* decorated function returns a mapping: the one parsed from the response  *)
(* text, or one with the single key error; never a list, number, string or *)
(* null.                                                                   *)
C8_JsonModeReturnsMapping ==
    (Decorated /\ pc = "done" /\ opts.output = "json" /\ Returned("func")) =>
        /\ outcome.st = "return"
        /\ outcome.v.t = "dict"

(* the first credential source, in the order api_key, GOOGLE_API_KEY,      *)
(* GEMINI_API_KEY, that is present and not empty                           *)
FirstPresent ==
    IF ~Absent(opts.api_key) THEN opts.api_key
    ELSE IF ~Absent(env.GOOGLE_API_KEY) THEN env.GOOGLE_API_KEY
    ELSE env.GEMINI_API_KEY

(* C9: the decorators and create_chat_session resolve the credential to    *)
(* the first present, non-empty value in the order api_key, GOOGLE_API_KEY *)
(* and GEMINI_API_KEY, skipping an empty string at an earlier position,    *)
(* and construct the client with exactly that value.                       *)
C9_FirstPresentKey ==
    (invocation > 0 /\ ~NoCredential) =>
        /\ key = FirstPresent
        /\ pc # "client" => Len(Calls("Client")) = 1
        /\ \A n \in 1..Len(log) :
              log[n].op = "Client" => log[n].arg = FirstPresent

C9_Witness ==
    /\ api = "create_chat_session"
    /\ opts.api_key = VStr(<<>>)
    /\ env.GOOGLE_API_KEY = VStr(<<>>)
    /\ env.GEMINI_API_KEY = VStr(<<"M">>)
    /\ Len(Calls("Client")) = 1
    /\ Calls("Client")[1].arg = VStr(<<"M">>)

(* what a config may hold for option v under the name field: nothing when  *)
(* v is not sent, v itself when it is                                      *)
Sends(call, field, v, sent) ==
    IF sent THEN HasKey(call.arg, <<field>>) /\ Get(call.arg, <<field>>) = v
    ELSE ~call.hasConfig \/ ~HasKey(call.arg, <<field>>)

NoNoneField(call) ==
    call.hasConfig => \A n \in 1..Len(call.arg.e) : call.arg.e[n] # VNone

(* C10, as stated: the generate call has a config argument exactly when an *)
(* option was set (given, whatever its value): tools, system instruction,  *)
(* temperature, max output tokens, or json output mode; every option set,  *)
(* a zero included, is sent with its value, and no field is None.          *)
C10_ConfigIffSupplied ==
    \A n \in 1..Len(Calls("generate_content")) :
        LET call == Calls("generate_content")[n]
        IN  /\ call.hasConfig <=>
                  \/ opts.tools # VNone
                  \/ opts.system_instruction # VNone
                  \/ opts.temperature # VNone
                  \/ opts.max_output_tokens # VNone
                  \/ opts.output = "json"
            /\ ~call.hasConfig => call.arg = VNone
            /\ Sends(call, "tools", opts.tools, opts.tools # VNone)
            /\ Sends(call, "system_instruction", opts.system_instruction,
                     opts.system_instruction # VNone)
            /\ Sends(call, "temperature", opts.temperature,
                     opts.temperature # VNone)
            /\ Sends(call, "max_output_tokens", opts.max_output_tokens,
                     opts.max_output_tokens # VNone)
            /\ NoNoneField(call)

(* C10, amended: tools and system instruction count as set only when they  *)
(* are not empty (an empty list or an empty string is left out like None), *)
(* temperature and max output tokens whenever they are not None, zero      *)
(* included; the generate call has a config argument exactly when one of   *)
(* them is set or the output mode is json, every option set is sent with   *)
(* its value, and no field is None.                                        *)
C10_ConfigIffSet ==
    \A n \in 1..Len(Calls("generate_content")) :
        LET call == Calls("generate_content")[n]
            toolsSet == opts.tools # VNone /\ opts.tools # VList(<<>>)
            sysSet == ~Absent(opts.system_instruction)
        IN  /\ call.hasConfig <=>
                  \/ toolsSet
                  \/ sysSet
                  \/ opts.temperature # VNone
                  \/ opts.max_output_tokens # VNone
                  \/ opts.output = "json"
            /\ ~call.hasConfig => call.arg = VNone
            /\ call.hasConfig => call.arg.t = "GenerateContentConfig"
            /\ Sends(call, "tools", opts.tools, toolsSet)
            /\ Sends(call, "system_instruction", opts.system_instruction,
                     sysSet)
            /\ Sends(call, "temperature", opts.temperature,
                     opts.temperature # VNone)
            /\ Sends(call, "max_output_tokens", opts.max_output_tokens,
                     opts.max_output_tokens # VNone)
            /\ NoNoneField(call)

C10_Witness ==
    /\ Decorated
    /\ opts.output = "text"
    /\ opts.tools = VNone
    /\ opts.system_instruction = VNone
    /\ opts.temperature = VInt(0)
    /\ opts.max_output_tokens = VNone
    /\ Len(Calls("generate_content")) = 1
    /\ Calls("generate_content")[1].hasConfig
    /\ Calls("generate_content")[1].arg.k = <<<<"temperature">>>>
    /\ Calls("generate_content")[1].arg.e = <<VInt(0)>>

(* the declaration of the tool a call of create_function_tool returned *)
Declaration == Get(tool.v, <<"function_declarations">>).e[1]

(* the parameters of the function other than self, in signature order *)
NonSelf(params) == SelectSeq(params, LAMBDA p : p.name # <<"self">>)

NoDefault(params) == SelectSeq(params, LAMBDA p : p.default = Empty)

(* the table of kinds *)
KindTable ==
    [int |-> "INTEGER", float |-> "NUMBER", bool |-> "BOOLEAN",
     list |-> "ARRAY", dict |-> "OBJECT"]

KindOf(annotation) ==
    IF annotation.t = "type" /\ annotation.s[1] \in DOMAIN KindTable
    THEN KindTable[annotation.s[1]]
    ELSE "STRING"

(* name, properties and required list of the descriptor, as C11 gives them *)
DescriptorOfSignature ==
    LET schema == Get(Declaration, <<"parameters">>)
        properties == Get(schema, <<"properties">>)
        required == Get(schema, <<"required">>)
        ps == NonSelf(tool_func.params)
    IN  /\ tool.v.t = "Tool"
        /\ Len(Get(tool.v, <<"function_declarations">>).e) = 1
        /\ Get(Declaration, <<"name">>) = VStr(tool_func.name)
        /\ Len(properties.k) = Len(ps)
        /\ \A n \in 1..Len(ps) :
              /\ properties.k[n] = ps[n].name
              /\ Get(properties.e[n], <<"type">>)
                     = VStr(<<KindOf(ps[n].annotation)>>)
        /\ Len(required.e) = Len(NoDefault(ps))
        /\ \A n \in 1..Len(required.e) :
              required.e[n] = VStr(NoDefault(ps)[n].name)

FallbackDescription == VStr(<<"Function ">> \o tool_func.name)

PlainLine(doc) ==
    /\ doc # <<>>
    /\ \A n \in 1..Len(doc) : doc[n] \notin {"\n", "\t"}
    /\ doc[1] \notin Whitespace
    /\ doc[Len(doc)] \notin Whitespace

Chat == api = "create_chat_session"

(* the session is opened once, unless the client constructor or            *)
(* GenerateContentConfig raised first, and no generate call is made        *)
OneSession ==
    /\ Len(Calls("chats.create")) <= 1
    /\ Calls("generate_content") = <<>>
    /\ (pc = "done" /\ ~Raised("Client") /\ ~Raised("GenerateContentConfig"))
          => Len(Calls("chats.create")) = 1

NoCredentialNoSession ==
    /\ pc = "done"
    /\ outcome = KeyRequired
    /\ log = <<>>
    /\ clients = 0

(* the config of a chats.create call holds the fields sent and no other *)
ChatConfigOf(call, sysSent, toolsSent) ==
    /\ call.hasConfig <=> (sysSent \/ toolsSent)
    /\ ~call.hasConfig => call.arg = VNone
    /\ Sends(call, "system_instruction", opts.system_instruction, sysSent)
    /\ Sends(call, "tools", opts.tools, toolsSent)
    /\ call.hasConfig =>
          \A n \in 1..Len(call.arg.k) :
              call.arg.k[n] \in {<<"system_instruction">>, <<"tools">>}

(* C12, as stated: create_chat_session raises the credential-required      *)
(* error with no credential, before a client or a session; otherwise it    *)
(* opens one session, with a config of exactly the system instruction and  *)
(* tools that were supplied (given, whatever their value), and with no     *)
(* config argument when neither was supplied.                              *)
C12_ChatSuppliedFields ==
    (Chat /\ invocation > 0) =>
        /\ NoCredential => NoCredentialNoSession
        /\ ~NoCredential =>
              /\ OneSession
              /\ \A n \in 1..Len(Calls("chats.create")) :
                    ChatConfigOf(Calls("chats.create")[n],
                                 opts.system_instruction # VNone,
                                 opts.tools # VNone)

(* C12, amended: as stated, where a system instruction or a tools list     *)
(* counts as supplied only when it is not empty: an empty string or an     *)
(* empty list is left out like None, and with nothing else supplied the    *)
(* session is opened with no config argument.                              *)
C12_ChatNonEmptyFields ==
    (Chat /\ invocation > 0) =>
        /\ NoCredential => NoCredentialNoSession
        /\ ~NoCredential =>
              /\ OneSession
              /\ \A n \in 1..Len(Calls("chats.create")) :
                    ChatConfigOf(Calls("chats.create")[n],
                                 ~Absent(opts.system_instruction),
                                 opts.tools \notin {VNone, VList(<<>>)})

C12_Witness ==
    /\ Chat
    /\ opts.system_instruction = VStr(<<"be brief">>)
    /\ opts.tools = VList(<<VFunc("get_time")>>)
    /\ pc = "done"
    /\ Len(Calls("chats.create")) = 1
    /\ Calls("chats.create")[1].arg.k = <<<<"system_instruction">>, <<"tools">>>>
    /\ outcome = Ret(SdkObject("Chat", <<>>, <<>>))

HasField(call, field) == call.hasConfig /\ HasKey(call.arg, <<field>>)

(* the function-calling mode is automatic with the cap, or disabled *)
ModeOfFlag(mode) ==
    /\ mode.t = "AutomaticFunctionCallingConfig"
    /\ Len(mode.k) = 1
    /\ IF opts.automatic_function_calling
       THEN /\ mode.k[1] = <<"maximum_remote_calls">>
            /\ mode.e[1] = VInt(opts.max_function_calls)
       ELSE /\ mode.k[1] = <<"disable">>
            /\ mode.e[1] = VBool(TRUE)

(* C13: in every generate call of a decorated function the config holds a  *)
(* function-calling mode if and only if it holds tools; the mode is        *)
(* automatic with cap max_function_calls when the flag is true, disabled   *)
(* when it is false, one of the two and not both; execute_llm sends        *)
(* neither tools nor a mode.                                               *)
C13_ModeIffTools ==
    Decorated =>
        \A n \in 1..Len(Calls("generate_content")) :
            LET call == Calls("generate_content")[n]
            IN  /\ HasField(call, "automatic_function_calling")
                      <=> HasField(call, "tools")
                /\ HasField(call, "automatic_function_calling") =>
                      ModeOfFlag(Get(call.arg,
                                     <<"automatic_function_calling">>))
                /\ api = "execute_llm" =>
                      /\ ~HasField(call, "tools")
                      /\ ~HasField(call, "automatic_function_calling")

C13_Witness ==
    /\ api = "execute_llm_with_tools"
    /\ ~opts.automatic_function_calling
    /\ Len(Calls("generate_content")) = 1
    /\ HasField(Calls("generate_content")[1], "tools")
    /\ Get(Calls("generate_content")[1].arg,
           <<"automatic_function_calling">>).k = <<<<"disable">>>>

(* what the wrapper returns when string_to_dict is given text: its value,  *)
(* or the error value of the exception it raised                           *)
Parsed(text) ==
    LET r == StringToDict(text)
    IN  IF r.st = "return" THEN r ELSE Ret(ErrorValueFor(r.v.s))

(* C14: the output mode alone decides: in json mode every generate call    *)
(* has a config with response_mime_type application/json and the response  *)
(* text is returned through Utils.string_to_dict; in text mode no call has *)
(* a response_mime_type and the response text is returned unchanged.       *)
C14_OutputModeGoverns ==
    Decorated =>
        /\ \A n \in 1..Len(Calls("generate_content")) :
              LET call == Calls("generate_content")[n]
              IN  IF opts.output = "json"
                  THEN /\ HasField(call, "response_mime_type")
                       /\ Get(call.arg, <<"response_mime_type">>)
                              = VStr(<<"application/json">>)
                  ELSE ~HasField(call, "response_mime_type")
        /\ (pc = "done" /\ Returned("generate_content")) =>
              LET text == Calls("generate_content")[1].result.v
              IN  outcome = IF opts.output = "json" THEN Parsed(text)
                            ELSE Ret(text)

C14_Witness ==
    /\ Decorated
    /\ opts.output = "json"
    /\ opts.tools = VNone
    /\ opts.temperature = VNone
    /\ pc = "done"
    /\ Returned("generate_content")
    /\ Calls("generate_content")[1].result.v =
          VStr(FencePython \o <<"\n">> \o ObjectText \o <<"\n">> \o Fence)
    /\ Calls("generate_content")[1].arg.k = <<<<"response_mime_type">>>>
    /\ outcome = Ret(VDict(<<<<"a">>>>, <<VInt(1)>>))

(* in text mode the response text, fenced JSON included, comes back as is *)
C14_WitnessText ==
    /\ Decorated
    /\ opts.output = "text"
    /\ pc = "done"
    /\ Returned("generate_content")
    /\ ~Calls("generate_content")[1].hasConfig
    /\ outcome = Ret(VStr(ObjectText))

(* the place of a call in an invocation *)
Rank(op) ==
    CASE op = "Client" -> 1
      [] op = "func" -> 2
      [] op = "GenerateContentConfig" -> 3
      [] op = "generate_content" -> 4
      [] OTHER -> 5

(* the calls of the invocation so far: each made at most once and in the   *)
(* order client, prompt function, generate; a later one only after the     *)
(* earlier ones returned; a failed generate call ends the invocation with  *)
(* the error value                                                         *)
OneOfEach ==
    Decorated =>
        /\ \A i, j \in 1..Len(log) :
              i < j => Rank(log[i].op) < Rank(log[j].op)
        /\ pc \in {"prompt", "generate"} => Returned("Client")
        /\ (pc = "done" /\ ~NoCredential) => Len(Calls("Client")) = 1
        /\ Calls("func") # <<>> => Returned("Client")
        /\ pc = "generate" => Returned("func")
        /\ Calls("generate_content") # <<>> => Returned("func")
        /\ Raised("generate_content") =>
              /\ pc = "done"
              /\ outcome =
                    Ret(ErrorValueFor(Calls("generate_content")[1].result.v.s))
        /\ clients <= invocation

(* the steps of an invocation: resolve the credential, construct a client  *)
(* that is new, call the prompt function, generate                         *)
StepOrder ==
    Decorated =>
        /\ pc \in {"idle", "done"} =>
              /\ invocation' = invocation + 1
              /\ log' = <<>>
              /\ pc' = IF NoCredential THEN "done" ELSE "client"
              /\ clients' = clients
        /\ pc = "client" =>
              /\ Len(log') = 1
              /\ log'[1].op = "Client"
              /\ IF log'[1].result.st = "return"
                 THEN pc' = "prompt" /\ clients' = clients + 1
                 ELSE pc' = "done" /\ clients' = clients
        /\ pc = "prompt" =>
              /\ Len(log') = 2
              /\ log'[2].op = "func"
              /\ pc' = IF log'[2].result.st = "return" THEN "generate"
                       ELSE "done"
              /\ clients' = clients
        /\ pc = "generate" =>
              /\ pc' = "done"
              /\ SubSeq(log', 1, 2) = log
              /\ Len(SelectSeq(log', LAMBDA c : c.op = "generate_content")) <= 1
              /\ outcome'.st = "return"
              /\ clients' = clients
        /\ pc' # "idle"

(* C15: over a sequence of invocations of a decorated function, each       *)
(* invocation that resolves a credential constructs one client, a new one, *)
(* and makes at most one generate call; a failed generate call is not      *)
(* tried again and the invocation returns the error value; the steps come  *)
(* in the order resolve credential, construct client, call the prompt      *)
(* function, generate.                                                     *)
C15_OneClientOneGenerate == []OneOfEach /\ [][StepOrder]_vars

C15_Witness ==
    /\ Decorated
    /\ invocation = 2
    /\ clients = 2
    /\ pc = "done"
    /\ Len(Calls("Client")) = 1
    /\ Len(Calls("generate_content")) = 1
    /\ Raised("generate_content")
    /\ outcome.st = "return"

====
